---------------------------- MODULE Spec2Model ----------------------------
(***************************************************************************)
(* A model of src/main.py (CybotControlApp): the reader thread that        *)
(* reassembles the robot's telemetry into lines, the line classifier       *)
(* process_line with its handlers (dead reckoning, scan accumulation,      *)
(* object registry, water samples), the Testing-menu actions of the GUI    *)
(* thread and the connect / disconnect life cycle.                         *)
(*                                                                         *)
(* Text.  A text is a sequence of pieces.  A piece is a run of characters  *)
(* without white space (a word or a part of one), the blank SP, or the     *)
(* line feed NL.  Adjacent pieces that are not SP belong to one word, so   *)
(* <<"comple", "te:">> reads "complete:".                                  *)
(*                                                                         *)
(* Numbers.  Every number read from the wire is kept in tenths: "100" is   *)
(* 1000, "35.20" is 352.  Headings are whole degrees (the turn templates   *)
(* only match \d+).  A position is kept in PosPerCm units per centimetre;  *)
(* sines are rounded to three decimals (Sin1000) and are exact at the      *)
(* multiples of 90 degrees.                                                *)
(***************************************************************************)
EXTENDS Integers, Sequences, FiniteSets, TLC

(***************************************************************************)
(* Bounds of the model.                                                    *)
(***************************************************************************)
MaxLines == 4        \* lines the robot sends in one behaviour
MaxGui == 1          \* Testing-menu actions in one behaviour
MaxConnects == 2     \* connections opened in one behaviour

SP == " "
NL == "\n"
\* a byte that is not ASCII (and alone no valid UTF-8)
BAD == "<ff>"
None == "None"

(***************************************************************************)
(* Lexical tables: what Python's int(), float() and the character class    *)
(* [\d.]+ do on the words of the model's vocabulary.                       *)
(***************************************************************************)
IntWords == {"0", "00", "1", "2", "4", "8", "20", "45", "50", "60", "90", "100",
             "200", "355", "450"}
DecWords == {"0.0", "45.0", "90.0", "35.20", "15.30"}

Val10(w) ==
  CASE w = "0" -> 0 [] w = "00" -> 0 [] w = "1" -> 10 [] w = "2" -> 20
    [] w = "4" -> 40 [] w = "8" -> 80 [] w = "20" -> 200 [] w = "45" -> 450
    [] w = "50" -> 500 [] w = "60" -> 600 [] w = "90" -> 900
    [] w = "100" -> 1000 [] w = "200" -> 2000 [] w = "355" -> 3550
    [] w = "450" -> 4500 [] w = "45.0" -> 450 [] w = "90.0" -> 900
    [] w = "0.0" -> 0
    [] w = "35.20" -> 352 [] w = "15.30" -> 153

\* float(w) succeeds
FloatOk(w) == w \in IntWords \cup DecWords
\* int(w) succeeds
IntOk(w) == w \in IntWords
\* re.findall(r"[\d.]+", w)
NumRuns(w) ==
  IF w \in IntWords \cup DecWords THEN <<w>>
  ELSE CASE w = "a=45" -> <<"45">>
         [] w = "d=50" -> <<"50">>
         [] w = "#1" -> <<"1">>
         [] w = "data..." -> <<"...">>
         [] w = "a=200" -> <<"200">>
         [] w = "15.30.1" -> <<"15.30.1">>
         [] OTHER -> <<>>
\* the word ends with a match of \d+ / starts with a match of \d+\.\d+
EndsInt(w) == w \in IntWords \/ w = "#1"
StartsDec(w) == w \in DecWords \/ w = "15.30.1"

(***************************************************************************)
(* Text operations.                                                        *)
(***************************************************************************)
RECURSIVE Spaced(_)
\* the text of the words ws separated by single blanks
Spaced(ws) ==
  IF Len(ws) <= 1 THEN ws ELSE <<ws[1], SP>> \o Spaced(Tail(ws))

RECURSIVE SplitNL(_)
\* str.split('\n'): the segments between line feeds; never empty
SplitNL(t) ==
  IF \A i \in 1..Len(t) : t[i] # NL THEN <<t>>
  ELSE LET i == CHOOSE k \in 1..Len(t) :
                  t[k] = NL /\ \A j \in 1..(k - 1) : t[j] # NL
       IN <<SubSeq(t, 1, i - 1)>> \o SplitNL(SubSeq(t, i + 1, Len(t)))

RECURSIVE WordsFrom(_, _, _)
\* str.split(): the words of a text; cur is the word being read (<<>>: none)
WordsFrom(t, cur, acc) ==
  IF t = <<>> THEN acc \o cur
  ELSE IF Head(t) = SP THEN WordsFrom(Tail(t), <<>>, acc \o cur)
  ELSE WordsFrom(Tail(t),
                 IF cur = <<>> THEN <<Head(t)>> ELSE <<cur[1] \o Head(t)>>,
                 acc)

Words(line) == WordsFrom(line, <<>>, <<>>)

\* line.strip() is empty
Blank(line) == Words(line) = <<>>

\* phrase in line, for a phrase of whole words
Contains(line, phrase) ==
  LET ws == Words(line) IN
  \E i \in 1..Len(ws) :
     /\ i + Len(phrase) - 1 <= Len(ws)
     /\ SubSeq(ws, i, i + Len(phrase) - 1) = phrase

RECURSIVE Flatten(_)
Flatten(ss) == IF ss = <<>> THEN <<>> ELSE Head(ss) \o Flatten(Tail(ss))

\* re.findall(r"[\d.]+", line)
Numbers(line) ==
  LET ws == Words(line) IN Flatten([i \in 1..Len(ws) |-> NumRuns(ws[i])])

(***************************************************************************)
(* Trigonometry, in thousandths, for the multiples of five degrees.        *)
(***************************************************************************)
SinQ == <<0, 87, 174, 259, 342, 423, 500, 574, 643, 707, 766, 819, 866, 906,
          940, 966, 985, 996, 1000>>

Sin1000(deg) ==
  LET a == deg % 360 IN
  IF a <= 90 THEN SinQ[(a \div 5) + 1]
  ELSE IF a <= 180 THEN SinQ[((180 - a) \div 5) + 1]
  ELSE IF a <= 270 THEN 0 - SinQ[((a - 180) \div 5) + 1]
  ELSE 0 - SinQ[((360 - a) \div 5) + 1]

Cos1000(deg) == Sin1000(deg + 90)

\* position units per centimetre: tenths of a centimetre times two
\* factors of a thousand from the sines
PosPerCm == 10 * 1000 * 1000


(***************************************************************************)
(* The application state as a record, so that the handlers are operators   *)
(* from state to state.  polar and map_view are what update_polar_plot     *)
(* and update_map last drew: the record and the snapshot handed to the     *)
(* rendering side.                                                         *)
(***************************************************************************)
EmptyScan == [angles |-> <<>>, distances |-> <<>>, type |-> None]
StartPosition == [x |-> 0, y |-> 0, angle |-> 90]

update_polar_plot(s) ==
  [s EXCEPT !.polar = [type |-> s.scan_data.type,
                       angles |-> s.scan_data.angles,
                       distances |-> s.scan_data.distances]]

update_map(s) ==
  [s EXCEPT !.map_view =
     [history |-> [i \in 1..Len(s.movement_history) |->
                     <<s.movement_history[i].x, s.movement_history[i].y>>],
      objects |-> s.objects,
      water_samples |-> s.water_samples,
      position |-> s.cybot_position]]

\* the outcome of a handler: the state it leaves and whether it raised
Ok(s) == [app |-> s, raised |-> FALSE]
Raise(s) == [app |-> s, raised |-> TRUE]
\* a drawing call as the last statement of a handler; fail > 0: it raises
Draw(s, fail) == IF fail > 0 THEN Raise(s) ELSE Ok(update_map(s))

\* re.search(pattern, text) for the patterns "<pre> (\d+) <unit>":
\* <<>> for None, else <<float(match.group(1))>> in tenths
extract_number(line, pre, unit) ==
  LET ws == Words(line)
      n == Len(pre)
      M == {i \in 1..Len(ws) :
              /\ i + n + 1 <= Len(ws)
              /\ SubSeq(ws, i, i + n - 1) = pre
              /\ ws[i + n] \in IntWords
              /\ ws[i + n + 1] = unit}
  IN IF M = {} THEN <<>>
     ELSE LET i == CHOOSE k \in M : \A j \in M : k <= j
          IN <<Val10(ws[i + n])>>

\* distance10: the distance in tenths of a centimetre
move_forward(s, distance10, fail) ==
  LET theta == s.cybot_position.angle
      dx == distance10 * Sin1000(theta) * 1000
      dy == distance10 * Cos1000(theta) * 1000
      p == [s.cybot_position EXCEPT !.x = @ + dx, !.y = @ + dy]
  IN Draw([s EXCEPT !.cybot_position = p,
                    !.movement_history = Append(@, p)], fail)

\* turns that do not reduce the heading modulo 360
turn_right_no_wrap(s, angle, fail) ==
  LET p == [s.cybot_position EXCEPT !.angle = @ - angle]
  IN Draw([s EXCEPT !.cybot_position = p,
                    !.movement_history = Append(@, p)], fail)

turn_left_no_wrap(s, angle, fail) ==
  LET p == [s.cybot_position EXCEPT !.angle = @ + angle]
  IN Draw([s EXCEPT !.cybot_position = p,
                    !.movement_history = Append(@, p)], fail)

\* a right turn that drops the objects placed from the old heading
turn_right_clearing(s, angle, fail) ==
  LET p == [s.cybot_position EXCEPT !.angle = (@ - angle) % 360]
  IN Draw([s EXCEPT !.cybot_position = p,
                    !.movement_history = Append(@, p),
                    !.objects = <<>>], fail)

turn_right(s, angle, fail) ==
  LET p == [s.cybot_position EXCEPT !.angle = (@ - angle) % 360]
  IN Draw([s EXCEPT !.cybot_position = p,
                    !.movement_history = Append(@, p)], fail)

turn_left(s, angle, fail) ==
  LET p == [s.cybot_position EXCEPT !.angle = (@ + angle) % 360]
  IN Draw([s EXCEPT !.cybot_position = p,
                    !.movement_history = Append(@, p)], fail)

\* storing without the range test
StoreSample_unchecked(s, angle10, distance10) ==
  [s EXCEPT !.scan_data.angles = Append(@, angle10),
            !.scan_data.distances = Append(@, distance10)]

\* "if 0 <= angle <= 180 and distance > 0": append to both lists
StoreSample(s, angle10, distance10) ==
  IF 0 <= angle10 /\ angle10 <= 1800 /\ distance10 > 0
  THEN [s EXCEPT !.scan_data.angles = Append(@, angle10),
                 !.scan_data.distances = Append(@, distance10)]
  ELSE s

\* a reading of rows that is content with one number
ParseRow_lenient(line) ==
  LET numbers == Numbers(line)
  IN IF Len(numbers) >= 1 /\ FloatOk(numbers[1])
     THEN <<Val10(numbers[1]), Val10(numbers[1])>>
     ELSE <<>>

\* the angle and distance process_scan_data reads from line, in tenths;
\* <<>> when it skips the line
ParseRow(line) ==
  LET parts == Words(line)
      numbers == Numbers(line)
  IN IF \/ Contains(line, <<"Angle">>) \/ Contains(line, <<"Distance">>)
        \/ Contains(line, <<"---">>) \/ Blank(line)
     THEN <<>>
     ELSE IF Len(parts) < 2 THEN <<>>
     ELSE IF FloatOk(parts[1]) /\ FloatOk(parts[2])
     THEN <<Val10(parts[1]), Val10(parts[2])>>
     ELSE \* the recovery path
          IF Len(numbers) >= 2 /\ FloatOk(numbers[1]) /\ FloatOk(numbers[2])
          THEN <<Val10(numbers[1]), Val10(numbers[2])>>
          ELSE <<>>

process_scan_data(s, line) ==
  LET row == ParseRow(line)
  IN IF row = <<>> THEN s ELSE StoreSample(s, row[1], row[2])

\* the detection (angle10, distance10) of a robot at position pos, in the
\* world frame
ToWorld(pos, angle10, distance10) ==
  LET theta == angle10 \div 10
      rel_x == distance10 * Sin1000(theta)
      rel_y == distance10 * Cos1000(theta)
      rotated_x == rel_x * Cos1000(pos.angle) - rel_y * Sin1000(pos.angle)
      rotated_y == rel_x * Sin1000(pos.angle) + rel_y * Cos1000(pos.angle)
  IN [x |-> pos.x + rotated_x, y |-> pos.y + rotated_y]

\* a transform whose result depends on how many objects are on the map
NewObject_drifting(s, obj_id, angle10, distance10, width10) ==
  LET w == ToWorld(s.cybot_position, angle10, distance10)
  IN [id |-> obj_id, x |-> w.x + Len(s.objects), y |-> w.y, angle |-> angle10,
      distance |-> distance10, width |-> width10,
      type |-> IF s.scan_data.type = None THEN "Unknown"
               ELSE s.scan_data.type]

NewObject(s, obj_id, angle10, distance10, width10) ==
  LET w == ToWorld(s.cybot_position, angle10, distance10)
  IN [id |-> obj_id, x |-> w.x, y |-> w.y, angle |-> angle10,
      distance |-> distance10, width |-> width10,
      type |-> IF s.scan_data.type = None THEN "Unknown"
               ELSE s.scan_data.type]

RECURSIVE SplitPipe(_)
\* line.split('|') on the words of a line: the fields between pipes
SplitPipe(ws) ==
  IF \A i \in 1..Len(ws) : ws[i] # "|" THEN <<ws>>
  ELSE LET i == CHOOSE k \in 1..Len(ws) :
                  ws[k] = "|" /\ \A j \in 1..(k - 1) : ws[j] # "|"
       IN <<SubSeq(ws, 1, i - 1)>> \o SplitPipe(SubSeq(ws, i + 1, Len(ws)))

\* re.search(r'\d+\s*\|\s*\d+\.\d+\s*\|\s*\d+\.\d+\s*\|\s*\d+\.\d+', line)
ObjectRowPattern(line) ==
  LET ws == Words(line) IN
  \E i \in 1..Len(ws) :
     /\ i + 6 <= Len(ws)
     /\ EndsInt(ws[i]) /\ ws[i + 1] = "|"
     /\ ws[i + 2] \in DecWords /\ ws[i + 3] = "|"
     /\ ws[i + 4] \in DecWords /\ ws[i + 5] = "|"
     /\ StartsDec(ws[i + 6])

\* fail: how many of the handler's drawing calls raise, the first ones
process_object_data(s, line, fail) ==
  LET parts == SplitPipe(Words(line))
      numbers == Numbers(line)
      strict == /\ Len(parts[1]) = 1 /\ IntOk(parts[1][1])
                /\ \A k \in 2..4 : Len(parts[k]) = 1 /\ FloatOk(parts[k][1])
      s1 == IF strict
            THEN [s EXCEPT !.objects =
                    Append(@, NewObject(s, Val10(parts[1][1]) \div 10,
                                        Val10(parts[2][1]), Val10(parts[3][1]),
                                        Val10(parts[4][1])))]
            ELSE s
      \* the except branch: "a more forgiving approach"
      recover == /\ Len(numbers) >= 4
                 /\ \A k \in 1..4 : FloatOk(numbers[k])
      s2 == IF recover
            THEN [s1 EXCEPT !.objects =
                    Append(@, NewObject(s1, Val10(numbers[1]) \div 10,
                                        Val10(numbers[2]), Val10(numbers[3]),
                                        Val10(numbers[4])))]
            ELSE s1
      \* the drawing call after the second append is the handler's second
      \* one when the strict path got as far as drawing
      recovered == IF recover
                   THEN IF fail > (IF strict THEN 1 ELSE 0) THEN s2
                        ELSE update_map(s2)
                   ELSE s1
  IN IF Len(parts) < 4 THEN s
     ELSE IF strict /\ fail = 0 THEN update_map(s1)
     ELSE recovered

complete_scan(s, fail) ==
  IF s.scan_data.angles = <<>> \/ s.scan_data.distances = <<>>
  THEN Ok([s EXCEPT !.scan_data = EmptyScan])
  ELSE IF fail > 0 THEN Raise(s)
  ELSE Ok([update_polar_plot(s) EXCEPT !.scan_data = EmptyScan])


\* the elif chain of process_line below the scan test; fail: how many of
\* the drawing calls the handler makes raise (the first ones)
dispatch(s, line, fail) ==
  IF Contains(line, <<"Moving", "forward">>)
  THEN LET distance_mm == extract_number(line, <<"Moving", "forward">>, "mm")
       IN IF distance_mm # <<>>
          THEN move_forward(s, distance_mm[1] \div 10, fail)
          ELSE Ok(s)
  ELSE IF Contains(line, <<"Turning", "right">>)
  THEN LET angle == extract_number(line, <<"Turning", "right">>, "degrees")
       IN IF angle # <<>> THEN turn_right(s, angle[1] \div 10, fail)
          ELSE Ok(s)
  ELSE IF Contains(line, <<"Turning", "left">>)
  THEN LET angle == extract_number(line, <<"Turning", "left">>, "degrees")
       IN IF angle # <<>> THEN turn_left(s, angle[1] \div 10, fail)
          ELSE Ok(s)
  ELSE IF Contains(line, <<"Beginning", "IR", "environment", "scan">>)
  THEN Ok([s EXCEPT !.scan_data = [EmptyScan EXCEPT !.type = "IR"]])
  ELSE IF Contains(line, <<"Beginning", "PING", "environment", "scan">>)
  THEN Ok([s EXCEPT !.scan_data = [EmptyScan EXCEPT !.type = "PING"]])
  ELSE IF \/ Contains(line, <<"IR", "scan", "complete">>)
          \/ Contains(line, <<"PING", "scan", "complete">>)
  THEN complete_scan(s, fail)
  ELSE IF Contains(line, <<"Object", "Detection", "Results">>)
  THEN IF Contains(line, <<"IR", "Object", "Detection", "Results">>)
       THEN Ok([s EXCEPT !.objects = <<>>])
       ELSE Ok(s)
  ELSE IF Contains(line, <<"|">>) /\ ObjectRowPattern(line)
  THEN Ok(process_object_data(s, line, fail))
  ELSE IF Contains(line, <<"blue", "sample", "detected">>)
  THEN Draw([s EXCEPT !.water_samples =
               Append(@, [x |-> s.cybot_position.x,
                          y |-> s.cybot_position.y])], fail)
  ELSE Ok(s)

\* a classifier without the scan test
process_line_ungated(s, line, fail) == dispatch(s, line, fail)

\* the classifier: while a scan collects every line is a scan row
process_line(s, line, fail) ==
  IF s.scan_data.type # None THEN Ok(process_scan_data(s, line))
  ELSE dispatch(s, line, fail)

(***************************************************************************)
(* The Testing menu (GUI thread).  The generated distances are             *)
(* base + noise with one noise value per scan, in tenths; the PING         *)
(* generator's noise (under 0.05) is below that resolution.                *)
(***************************************************************************)
TestAngles == [i \in 1..46 |-> (i - 1) * 40]
Max(a, b) == IF a >= b THEN a ELSE b

IrBase(a10) ==
  IF 300 <= a10 /\ a10 <= 500 THEN 10
  ELSE IF 900 <= a10 /\ a10 <= 1100 THEN 5
  ELSE IF 1500 <= a10 /\ a10 <= 1700 THEN 15
  ELSE 20

PingBase(a10) ==
  IF 200 <= a10 /\ a10 <= 400 THEN 8
  ELSE IF 800 <= a10 /\ a10 <= 1000 THEN 7
  ELSE IF 1400 <= a10 /\ a10 <= 1600 THEN 12
  ELSE 20

IrNoise == {-1, 0, 1}

test_ir_scan(s, noise) ==
  LET d == [i \in 1..46 |-> Max(1, IrBase(TestAngles[i]) + noise)]
      s1 == [s EXCEPT !.scan_data =
               [angles |-> TestAngles, distances |-> d, type |-> "IR"]]
  IN [update_polar_plot(s1) EXCEPT !.scan_data.type = None]

test_ping_scan(s) ==
  LET d == [i \in 1..46 |-> Max(1, PingBase(TestAngles[i]))]
      s1 == [s EXCEPT !.scan_data =
               [angles |-> TestAngles, distances |-> d, type |-> "PING"]]
  IN [update_polar_plot(s1) EXCEPT !.scan_data.type = None]

TestObjects ==
  <<[id |-> 1, angle |-> 300, distance |-> 500, width |-> 250],
    [id |-> 2, angle |-> 900, distance |-> 400, width |-> 200],
    [id |-> 3, angle |-> 1500, distance |-> 600, width |-> 300]>>

test_object_detection(s) ==
  LET obj(i) ==
        LET w == ToWorld(s.cybot_position, TestObjects[i].angle,
                         TestObjects[i].distance)
        IN [id |-> TestObjects[i].id, x |-> w.x, y |-> w.y,
            angle |-> TestObjects[i].angle,
            distance |-> TestObjects[i].distance,
            width |-> TestObjects[i].width, type |-> "IR"]
  IN update_map([s EXCEPT !.objects = @ \o <<obj(1), obj(2), obj(3)>>])

clear_map(s) ==
  update_map([s EXCEPT !.objects = <<>>,
                       !.water_samples = <<>>,
                       !.cybot_position = StartPosition,
                       !.movement_history = <<StartPosition>>])


(***************************************************************************)
(* The robot's lines.                                                      *)
(***************************************************************************)
LForward == Spaced(<<"Moving", "forward", "100", "mm">>)
LRight(a) == Spaced(<<"Turning", "right", a, "degrees">>)
LLeft(a) == Spaced(<<"Turning", "left", a, "degrees">>)
LBegin(k) == Spaced(<<"Beginning", k, "environment", "scan">>)
LComplete(k) == Spaced(<<k, "scan", "complete">>)
LRow(a, d) == Spaced(<<a, d>>)
LHeader(k) == Spaced(<<k, "Object", "Detection", "Results">>)
LObject == Spaced(<<"1", "|", "45.0", "|", "35.20", "|", "15.30">>)
LBlue == Spaced(<<"blue", "sample", "detected">>)
LNoise == Spaced(<<"Enter", "command:">>)
\* "Movement complete: Moving forward 50 mm" with a word in two pieces
LMoveDone ==
  <<"Movement", SP, "comple", "te:", SP>>
    \o Spaced(<<"Moving", "forward", "50", "mm">>)

PoseVocab == {LForward, LRight("20"), LRight("100"), LRight("450"),
              LLeft("20"), LLeft("355")}
ScanVocab == {LBegin("IR"), LBegin("PING"), LRow("45", "50"),
              LComplete("IR"), LComplete("PING"), LForward}
ObjectVocab == {LHeader("IR"), LHeader("PING"), LObject, LBegin("IR"),
                LComplete("IR"), LBlue}
LBackward == Spaced(<<"Moving", "backward", "100", "mm">>)
\* rows that neither float() nor the numbers found in them make sense of
LBadRow == Spaced(<<"a=45", "data...">>)
LShortRow == Spaced(<<"a=45", "cm">>)
LBadObject == Spaced(<<"1", "|", "45.0", "|", "35.20", "|", "15.30.1">>)
\* rows that only the recovery path reads
LFallbackRow == Spaced(<<"a=45", "d=50">>)
LFarFallback == Spaced(<<"a=200", "d=50">>)
LFallbackObject == Spaced(<<"#1", "|", "45.0", "|", "35.20", "|", "15.30">>)

RowVocab == {LBegin("PING"), LBadRow, LShortRow, LRow("200", "50"),
             LRow("45", "0"), LFallbackRow, LFarFallback}
MoveVocab == {LBackward, LObject, LBadObject, LFallbackObject,
              LRight("100"), LBegin("PING")}
LifeVocab == {LForward}
EofVocab == {LMoveDone}
\* an object at local angle 0, and quarter turns to meet it at every side
LSideObject == Spaced(<<"1", "|", "0.0", "|", "35.20", "|", "15.30">>)
SideVocab == {LRight("450"), LSideObject}
\* samples taken on the way, with the Testing menu at hand
SampleVocab == {LBlue, LForward}
FrameVocab == {LMoveDone, <<>>, <<BAD>>}

(***************************************************************************)
(* An environment: what the robot may send and how the run is bounded.     *)
(* window: lines the robot may have in flight; cut: a read may return a    *)
(* part of what is in flight; faults: the user may disconnect and the      *)
(* connection may fail; fails: how many drawing calls of a handler may     *)
(* raise; close: the robot may close the connection.                       *)
(***************************************************************************)
Fails == 0..2

GuiVocab == {LRight("100"), LBegin("IR"), LComplete("IR"), LHeader("IR")}

Envs ==
  {[vocab |-> v, lines |-> MaxLines, window |-> 1, conns |-> 1, gui |-> 0,
    cut |-> FALSE, faults |-> FALSE, fails |-> Fails, close |-> FALSE] :
     v \in {PoseVocab, ScanVocab, ObjectVocab}}
  \cup {[vocab |-> v, lines |-> MaxLines - 1, window |-> 1, conns |-> 1,
         gui |-> 0, cut |-> FALSE, faults |-> FALSE, fails |-> Fails,
         close |-> FALSE] :
          v \in {RowVocab, MoveVocab}}
  \cup {[vocab |-> SideVocab, lines |-> MaxLines, window |-> 1, conns |-> 1,
         gui |-> 0, cut |-> FALSE, faults |-> FALSE, fails |-> {0},
         close |-> FALSE]}
  \cup {[vocab |-> GuiVocab, lines |-> MaxLines - 1, window |-> 1,
         conns |-> 1, gui |-> MaxGui, cut |-> FALSE, faults |-> FALSE,
         fails |-> {0}, close |-> FALSE]}
  \cup {[vocab |-> SampleVocab, lines |-> MaxLines - 1, window |-> 1,
         conns |-> 1, gui |-> MaxGui, cut |-> FALSE, faults |-> FALSE,
         fails |-> {0}, close |-> FALSE]}
  \cup {[vocab |-> LifeVocab, lines |-> 2, window |-> 2,
         conns |-> MaxConnects, gui |-> 0, cut |-> FALSE, faults |-> TRUE,
         fails |-> Fails, close |-> FALSE]}
  \cup {[vocab |-> EofVocab, lines |-> MaxLines - 2, window |-> 1,
         conns |-> 1, gui |-> 0, cut |-> TRUE, faults |-> TRUE,
         fails |-> {0}, close |-> TRUE]}

ConcVocab == {LForward, LBegin("IR"), LRow("45", "50")}

ConcEnvs ==
  {[vocab |-> ConcVocab, lines |-> MaxLines - 2, window |-> 1, conns |-> 1,
    gui |-> MaxGui, cut |-> FALSE, faults |-> FALSE, fails |-> {0},
    close |-> FALSE]}

FrameEnvs ==
  {[vocab |-> FrameVocab, lines |-> MaxLines, window |-> 2, conns |-> 1,
    gui |-> 0, cut |-> TRUE, faults |-> FALSE, fails |-> {0},
    close |-> FALSE]}

VARIABLES
  scan_data, cybot_position, movement_history, objects, water_samples,
  polar, map_view,        \* what the two canvases last drew
  socket,                 \* self.socket: 0 for None, else the connection
  connected, stop_thread,
  closed,                 \* the sockets closed by disconnect
  after,                  \* disconnect calls queued by root.after(0, ...)
  pc, buffer, todo, rsock,  \* the reader threads, one per connection
  loc,                    \* a reader's local variables inside a handler
  sent, rcvd,             \* per connection: the text sent, pieces read
  eof,                    \* the connections the robot has closed
  handed,                 \* the lines handed to process_line so far
  ngui, nconn, env

appvars == <<scan_data, cybot_position, movement_history, objects,
             water_samples, polar, map_view>>
connvars == <<socket, connected, stop_thread, closed, after>>
readervars == <<pc, buffer, todo, rsock, loc>>
vars == <<scan_data, cybot_position, movement_history, objects,
          water_samples, polar, map_view, socket, connected, stop_thread,
          closed, after, pc, buffer, todo, rsock, loc, sent, rcvd, eof,
          handed, ngui, nconn, env>>

Threads == 1..MaxConnects

App == [scan_data |-> scan_data, cybot_position |-> cybot_position,
        movement_history |-> movement_history, objects |-> objects,
        water_samples |-> water_samples, polar |-> polar,
        map_view |-> map_view]

SetApp(s) ==
  /\ scan_data' = s.scan_data
  /\ cybot_position' = s.cybot_position
  /\ movement_history' = s.movement_history
  /\ objects' = s.objects
  /\ water_samples' = s.water_samples
  /\ polar' = s.polar
  /\ map_view' = s.map_view

\* the state __init__ leaves; create_main_frame draws the map once
NewApp ==
  update_map([scan_data |-> EmptyScan, cybot_position |-> StartPosition,
              movement_history |-> <<StartPosition>>, objects |-> <<>>,
              water_samples |-> <<>>,
              polar |-> [type |-> "Blank", angles |-> <<>>,
                         distances |-> <<>>],
              map_view |-> <<>>])

InitIn(E) ==
  /\ env \in E
  /\ scan_data = NewApp.scan_data
  /\ cybot_position = NewApp.cybot_position
  /\ movement_history = NewApp.movement_history
  /\ objects = NewApp.objects
  /\ water_samples = NewApp.water_samples
  /\ polar = NewApp.polar
  /\ map_view = NewApp.map_view
  /\ socket = 0 /\ connected = FALSE /\ stop_thread = FALSE
  /\ closed = {} /\ after = 0
  /\ pc = [t \in Threads |-> "none"]
  /\ buffer = [t \in Threads |-> <<>>]
  /\ todo = [t \in Threads |-> <<>>]
  /\ rsock = [t \in Threads |-> 0]
  /\ loc = [t \in Threads |-> <<>>]
  /\ sent = [c \in Threads |-> <<>>]
  /\ rcvd = [c \in Threads |-> 0]
  /\ eof = {}
  /\ handed = <<>>
  /\ ngui = 0 /\ nconn = 0

Init == InitIn(Envs)

\* the text in flight on connection c
Wire(c) == SubSeq(sent[c], rcvd[c] + 1, Len(sent[c]))
\* the text read from connection c
Received(c) == SubSeq(sent[c], 1, rcvd[c])
CountNL(t) == Cardinality({i \in 1..Len(t) : t[i] = NL})

(***************************************************************************)
(* The robot.                                                              *)
(***************************************************************************)
RobotSend(line) ==
  /\ connected /\ socket # 0
  /\ CountNL(Flatten(sent)) < env.lines
  /\ CountNL(Wire(socket)) < env.window
  /\ socket \notin eof
  /\ sent' = [sent EXCEPT ![socket] = @ \o line \o <<NL>>]
  /\ UNCHANGED <<appvars, connvars, readervars, rcvd, eof, handed, ngui,
                 nconn, env>>

\* the robot closes its end of a connection
RobotClose ==
  /\ env.close
  /\ \E c \in 1..nconn :
       /\ c \notin eof
       /\ eof' = eof \cup {c}
  /\ UNCHANGED <<appvars, connvars, readervars, sent, rcvd, handed, ngui,
                 nconn, env>>

(***************************************************************************)
(* connect, disconnect (GUI thread).                                       *)
(***************************************************************************)
Connect ==
  /\ ~connected
  /\ nconn < env.conns /\ nconn < MaxConnects
  /\ nconn' = nconn + 1
  /\ socket' = nconn + 1
  /\ connected' = TRUE
  /\ stop_thread' = FALSE
  /\ pc' = [pc EXCEPT ![nconn + 1] = "loop"]
  /\ buffer' = [buffer EXCEPT ![nconn + 1] = <<>>]
  /\ UNCHANGED <<appvars, closed, after, todo, rsock, loc, sent, eof, rcvd,
                 handed, ngui, env>>

\* the body of disconnect
DoDisconnect ==
  /\ IF socket # 0
     THEN /\ stop_thread' = TRUE
          /\ closed' = closed \cup {socket}
          /\ socket' = 0
     ELSE UNCHANGED <<stop_thread, closed, socket>>
  /\ connected' = FALSE

\* toggle_connection while connected
Disconnect ==
  /\ env.faults
  /\ connected
  /\ DoDisconnect
  /\ UNCHANGED <<appvars, after, readervars, sent, eof, rcvd, handed, ngui,
                 nconn, env>>

\* the main loop runs a disconnect queued by a reader
RunAfter ==
  /\ after > 0
  /\ after' = after - 1
  /\ DoDisconnect
  /\ UNCHANGED <<appvars, readervars, sent, eof, rcvd, handed, ngui, nconn,
                 env>>


(***************************************************************************)
(* receive_data (reader thread t).  pc: "none" not started, "loop" at the  *)
(* while test, "recv" inside socket.recv, "lines" in the for loop over     *)
(* the chunk's lines, "exit" after the loop, "done" returned.              *)
(***************************************************************************)
Front(q) == SubSeq(q, 1, Len(q) - 1)
Last(q) == q[Len(q)]
NonBlank(line) == ~Blank(line)

\* a framer that forgets the partial line it holds
Frame_forgetful(buf, data) ==
  LET lines == SplitNL(data)
  IN [buffer |-> Last(lines), lines |-> SelectSeq(Front(lines), NonBlank)]

\* "buffer += data; lines = buffer.split('\n'); buffer = lines.pop()" and
\* the lines the for loop hands on ("if line.strip()")
Frame(buf, data) ==
  LET lines == SplitNL(buf \o data)
  IN [buffer |-> Last(lines), lines |-> SelectSeq(Front(lines), NonBlank)]

LoopCheck(t) ==
  /\ pc[t] = "loop"
  /\ IF stop_thread \/ socket = 0
     THEN pc' = [pc EXCEPT ![t] = "exit"] /\ rsock' = rsock
     ELSE /\ pc' = [pc EXCEPT ![t] = "recv"]
          /\ rsock' = [rsock EXCEPT ![t] = socket]
  /\ UNCHANGED <<appvars, connvars, buffer, todo, loc, sent, eof, rcvd,
                 handed, ngui, nconn, env>>

\* bytes.decode() succeeds
Decodable(data) == \A i \in 1..Len(data) : data[i] # BAD

\* the state of reader t after "data = self.socket.recv(1024).decode()"
\* and the framing of data; a decoding error is caught by the except
\* clause around the loop body
Receive(t, data) ==
  IF Decodable(data)
  THEN LET f == Frame(buffer[t], data)
       IN [buffer |-> f.buffer, todo |-> f.lines,
           pc |-> IF f.lines = <<>> THEN "loop" ELSE "lines"]
  ELSE [buffer |-> buffer[t], todo |-> <<>>,
        pc |-> IF stop_thread THEN "loop" ELSE "exit"]

\* socket.recv returns data; a call that began before disconnect closed
\* the socket may still return what arrives
Recv(t) ==
  /\ pc[t] = "recv"
  /\ Wire(rsock[t]) # <<>>
  /\ \E k \in 1..Len(Wire(rsock[t])) :
       /\ env.cut \/ k = Len(Wire(rsock[t]))
       /\ LET r == Receive(t, SubSeq(Wire(rsock[t]), 1, k))
          IN /\ buffer' = [buffer EXCEPT ![t] = r.buffer]
             /\ todo' = [todo EXCEPT ![t] = r.todo]
             /\ pc' = [pc EXCEPT ![t] = r.pc]
       /\ rcvd' = [rcvd EXCEPT ![rsock[t]] = @ + k]
  /\ UNCHANGED <<appvars, connvars, rsock, loc, sent, eof, handed, ngui,
                 nconn, env>>

\* socket.recv returns b'' (the peer closed) or raises
RecvFault(t) ==
  /\ env.faults
  /\ pc[t] = "recv"
  /\ \/ /\ rsock[t] \in eof /\ Wire(rsock[t]) = <<>>
        /\ pc' = [pc EXCEPT ![t] = "exit"]
     \/ /\ ~(rsock[t] \in eof /\ Wire(rsock[t]) = <<>>)
        /\ pc' = [pc EXCEPT ![t] = IF stop_thread THEN "loop" ELSE "exit"]
  /\ UNCHANGED <<appvars, connvars, buffer, todo, rsock, loc, sent, eof, rcvd,
                 handed, ngui, nconn, env>>

\* one turn of "for line in lines: self.process_line(line)", and the
\* except clause when the handler raises
ProcessLine(t) ==
  /\ pc[t] = "lines"
  /\ \E fail \in env.fails :
       LET r == process_line(App, Head(todo[t]), fail)
       IN /\ SetApp(r.app)
          /\ IF r.raised
             THEN /\ todo' = [todo EXCEPT ![t] = <<>>]
                  /\ pc' = [pc EXCEPT ![t] = IF stop_thread THEN "loop"
                                             ELSE "exit"]
             ELSE /\ todo' = [todo EXCEPT ![t] = Tail(@)]
                  /\ pc' = [pc EXCEPT ![t] = IF Tail(todo[t]) = <<>>
                                             THEN "loop" ELSE "lines"]
  /\ handed' = Append(handed, Head(todo[t]))
  /\ UNCHANGED <<connvars, buffer, rsock, loc, sent, eof, rcvd, ngui, nconn,
                 env>>

\* a reader that returns without queueing the disconnect
ReaderExit_silent(t) ==
  /\ pc[t] = "exit"
  /\ pc' = [pc EXCEPT ![t] = "done"]
  /\ UNCHANGED <<appvars, connvars, buffer, todo, rsock, loc, sent, eof,
                 rcvd, handed, ngui, nconn, env>>

\* "if not self.stop_thread: self.root.after(0, self.disconnect)"
ReaderExit(t) ==
  /\ pc[t] = "exit"
  /\ pc' = [pc EXCEPT ![t] = "done"]
  /\ after' = IF stop_thread THEN after ELSE after + 1
  /\ UNCHANGED <<appvars, socket, connected, stop_thread, closed, buffer,
                 todo, rsock, loc, sent, eof, rcvd, handed, ngui, nconn, env>>

(***************************************************************************)
(* The Testing menu.                                                       *)
(***************************************************************************)
Gui(s) ==
  /\ ngui < env.gui
  /\ ngui' = ngui + 1
  /\ SetApp(s)
  /\ UNCHANGED <<connvars, readervars, sent, eof, rcvd, handed, nconn, env>>

TestIrScan == \E noise \in IrNoise : Gui(test_ir_scan(App, noise))
TestPingScan == Gui(test_ping_scan(App))
TestObjectDetection == Gui(test_object_detection(App))
ClearMap == Gui(clear_map(App))

Next ==
  \/ \E line \in env.vocab : RobotSend(line)
  \/ RobotClose
  \/ Connect
  \/ Disconnect
  \/ RunAfter
  \/ \E t \in Threads : LoopCheck(t)
  \/ \E t \in Threads : Recv(t)
  \/ \E t \in Threads : RecvFault(t)
  \/ \E t \in Threads : ProcessLine(t)
  \/ \E t \in Threads : ReaderExit(t)
  \/ TestIrScan
  \/ TestPingScan
  \/ TestObjectDetection
  \/ ClearMap

Spec == Init /\ [][Next]_vars

(***************************************************************************)
(* One connection whose reads end anywhere in the text, and no faults.     *)
(***************************************************************************)
InitFrame == InitIn(FrameEnvs)

NextFrame ==
  \/ \E line \in env.vocab : RobotSend(line)
  \/ Connect
  \/ \E t \in Threads : LoopCheck(t)
  \/ \E t \in Threads : Recv(t)
  \/ \E t \in Threads : ProcessLine(t)

FrameSpec == InitFrame /\ [][NextFrame]_vars

(***************************************************************************)
(* The reader statement by statement.  move_forward and the storing of a   *)
(* scan row are several statements of the reader thread; the code takes no *)
(* lock, so the GUI thread's menu commands run between them.  pc:          *)
(* "mf_x", "mf_y", "mf_hist", "mf_map" before the statements of            *)
(* move_forward, "sd_angle", "sd_dist" before the two appends of           *)
(* process_scan_data.                                                      *)
(***************************************************************************)
InitConc == InitIn(ConcEnvs)

\* the line is a movement that process_line gives to move_forward
IsForward(line) ==
  /\ scan_data.type = None
  /\ Contains(line, <<"Moving", "forward">>)
  /\ extract_number(line, <<"Moving", "forward">>, "mm") # <<>>

\* the line is a scan row that process_scan_data stores
IsStoredRow(line) ==
  /\ scan_data.type # None
  /\ ParseRow(line) # <<>>
  /\ 0 <= ParseRow(line)[1] /\ ParseRow(line)[1] <= 1800
  /\ ParseRow(line)[2] > 0

\* process_line returns to the for loop of receive_data
Return(t) ==
  /\ handed' = Append(handed, Head(todo[t]))
  /\ todo' = [todo EXCEPT ![t] = Tail(@)]
  /\ pc' = [pc EXCEPT ![t] = IF Tail(todo[t]) = <<>> THEN "loop" ELSE "lines"]
  /\ loc' = [loc EXCEPT ![t] = <<>>]

\* "theta = ...; dx = distance_cm * math.sin(theta); dy = ..."
EnterMoveForward(t) ==
  /\ pc[t] = "lines"
  /\ IsForward(Head(todo[t]))
  /\ LET distance_mm ==
           extract_number(Head(todo[t]), <<"Moving", "forward">>, "mm")
         distance10 == distance_mm[1] \div 10
         theta == cybot_position.angle
     IN loc' = [loc EXCEPT ![t] =
                  [dx |-> distance10 * Sin1000(theta) * 1000,
                   dy |-> distance10 * Cos1000(theta) * 1000]]
  /\ pc' = [pc EXCEPT ![t] = "mf_x"]
  /\ UNCHANGED <<appvars, connvars, buffer, todo, rsock, sent, eof, rcvd,
                 handed, ngui, nconn, env>>

\* "self.cybot_position['x'] += dx"
MfX(t) ==
  /\ pc[t] = "mf_x"
  /\ cybot_position' = [cybot_position EXCEPT !.x = @ + loc[t].dx]
  /\ pc' = [pc EXCEPT ![t] = "mf_y"]
  /\ UNCHANGED <<scan_data, movement_history, objects, water_samples, polar,
                 map_view, connvars, buffer, todo, rsock, loc, sent, eof,
                 rcvd, handed, ngui, nconn, env>>

\* "self.cybot_position['y'] += dy"
MfY(t) ==
  /\ pc[t] = "mf_y"
  /\ cybot_position' = [cybot_position EXCEPT !.y = @ + loc[t].dy]
  /\ pc' = [pc EXCEPT ![t] = "mf_hist"]
  /\ UNCHANGED <<scan_data, movement_history, objects, water_samples, polar,
                 map_view, connvars, buffer, todo, rsock, loc, sent, eof,
                 rcvd, handed, ngui, nconn, env>>

\* "self.movement_history.append(dict(self.cybot_position))"
MfHist(t) ==
  /\ pc[t] = "mf_hist"
  /\ movement_history' = Append(movement_history, cybot_position)
  /\ pc' = [pc EXCEPT ![t] = "mf_map"]
  /\ UNCHANGED <<scan_data, cybot_position, objects, water_samples, polar,
                 map_view, connvars, buffer, todo, rsock, loc, sent, eof,
                 rcvd, handed, ngui, nconn, env>>

\* "self.update_map()" and the return
MfMap(t) ==
  /\ pc[t] = "mf_map"
  /\ map_view' = update_map(App).map_view
  /\ Return(t)
  /\ UNCHANGED <<scan_data, cybot_position, movement_history, objects,
                 water_samples, polar, connvars, buffer, rsock, sent, eof,
                 rcvd, ngui, nconn, env>>

\* "angle = float(parts[0]); distance = float(parts[1])" and the test
EnterRow(t) ==
  /\ pc[t] = "lines"
  /\ IsStoredRow(Head(todo[t]))
  /\ loc' = [loc EXCEPT ![t] = [angle |-> ParseRow(Head(todo[t]))[1],
                                distance |-> ParseRow(Head(todo[t]))[2]]]
  /\ pc' = [pc EXCEPT ![t] = "sd_angle"]
  /\ UNCHANGED <<appvars, connvars, buffer, todo, rsock, sent, eof, rcvd,
                 handed, ngui, nconn, env>>

\* "self.scan_data['angles'].append(angle)"
SdAngle(t) ==
  /\ pc[t] = "sd_angle"
  /\ scan_data' = [scan_data EXCEPT !.angles = Append(@, loc[t].angle)]
  /\ pc' = [pc EXCEPT ![t] = "sd_dist"]
  /\ UNCHANGED <<cybot_position, movement_history, objects, water_samples,
                 polar, map_view, connvars, buffer, todo, rsock, loc, sent,
                 eof, rcvd, handed, ngui, nconn, env>>

\* "self.scan_data['distances'].append(distance)" and the return
SdDist(t) ==
  /\ pc[t] = "sd_dist"
  /\ scan_data' = [scan_data EXCEPT !.distances = Append(@, loc[t].distance)]
  /\ Return(t)
  /\ UNCHANGED <<cybot_position, movement_history, objects, water_samples,
                 polar, map_view, connvars, buffer, rsock, sent, eof, rcvd,
                 ngui, nconn, env>>

\* any other line: a handler of one assignment, or none
OtherLine(t) ==
  /\ pc[t] = "lines"
  /\ ~IsForward(Head(todo[t]))
  /\ ~IsStoredRow(Head(todo[t]))
  /\ ProcessLine(t)

NextConc ==
  \/ \E line \in env.vocab : RobotSend(line)
  \/ Connect
  \/ \E t \in Threads : LoopCheck(t)
  \/ \E t \in Threads : Recv(t)
  \/ \E t \in Threads : OtherLine(t)
  \/ \E t \in Threads : EnterMoveForward(t)
  \/ \E t \in Threads : MfX(t)
  \/ \E t \in Threads : MfY(t)
  \/ \E t \in Threads : MfHist(t)
  \/ \E t \in Threads : MfMap(t)
  \/ \E t \in Threads : EnterRow(t)
  \/ \E t \in Threads : SdAngle(t)
  \/ \E t \in Threads : SdDist(t)
  \/ TestIrScan
  \/ TestPingScan
  \/ TestObjectDetection
  \/ ClearMap

ConcSpec == InitConc /\ [][NextConc]_vars

(***************************************************************************)
(* Threads that can run do run, and the Tk main loop runs what is queued;  *)
(* nothing obliges the robot to send, the user to act or a read to fail.   *)
(***************************************************************************)
ReaderStep(t) == LoopCheck(t) \/ ReaderExit(t)

\* weak fairness of Recv(t), which is enabled exactly when the reader
\* stands at "recv" and text is in flight on its socket
RecvFair(t) ==
  \/ []<>(pc[t] # "recv" \/ Wire(rsock[t]) = <<>>)
  \/ []<><<Recv(t)>>_vars

\* weak fairness of ProcessLine(t), which is enabled exactly when the
\* reader stands at "lines"
LinesFair(t) == []<>(pc[t] # "lines") \/ []<><<ProcessLine(t)>>_vars

ReaderFair(t) == WF_vars(ReaderStep(t)) /\ RecvFair(t) /\ LinesFair(t)

FairSpec ==
  /\ Spec
  /\ \A t \in Threads : ReaderFair(t)
  /\ WF_vars(RunAfter)

\* The connections on which reads fail or the robot closes, under the
\* same scheduling.
InitFault == InitIn({x \in Envs : x.faults})

NextFault ==
  \/ \E line \in env.vocab : RobotSend(line)
  \/ RobotClose
  \/ Connect
  \/ Disconnect
  \/ RunAfter
  \/ \E t \in Threads : LoopCheck(t)
  \/ \E t \in Threads : Recv(t)
  \/ \E t \in Threads : RecvFault(t)
  \/ \E t \in Threads : ProcessLine(t)
  \/ \E t \in Threads : ReaderExit(t)

FaultSpec ==
  /\ InitFault /\ [][NextFault]_vars
  /\ \A t \in Threads : ReaderFair(t)
  /\ WF_vars(RunAfter)

(***************************************************************************)
(* Properties.  A step hands line to process_line exactly when it appends  *)
(* line to handed.                                                         *)
(***************************************************************************)
Handles(line) == handed' = Append(handed, line)
Kinds == {"IR", "PING"}
Degrees == {"20", "100", "355", "450"}

\* C1 (scan sealing): the completion line of kind K arriving while a scan of
\* kind K collects hands exactly one record with the collected points to
\* the polar plot, clears the accumulator and leaves no scan collecting.
C1_ScanSealing ==
  [][\A k \in Kinds :
       (Handles(LComplete(k)) /\ scan_data.type = k)
         => /\ scan_data' = EmptyScan
            /\ polar' = [type |-> k, angles |-> scan_data.angles,
                         distances |-> scan_data.distances]]_vars

\* C2 (pose integration): a forward movement of d handed on at heading h
\* while no scan collects moves the pose by (d cos h, d sin h) and keeps
\* the heading; the first "Moving forward 100 mm" leaves the pose
\* (0, 10 cm, 90).
C2_PoseIntegration ==
  [][(Handles(LForward) /\ scan_data.type = None)
       => /\ cybot_position'.x = cybot_position.x
               + 100 * Cos1000(cybot_position.angle) * 1000
          /\ cybot_position'.y = cybot_position.y
               + 100 * Sin1000(cybot_position.angle) * 1000
          /\ cybot_position'.angle = cybot_position.angle
          /\ (cybot_position = StartPosition
                => cybot_position' = [x |-> 0, y |-> 10 * PosPerCm,
                                      angle |-> 90])]_vars

\* C3 (turn arithmetic): a right turn by a, handed on while no scan
\* collects, makes the heading (h - a) mod 360 and a left turn
\* (h + a) mod 360, also for a >= 360; 350 right 20 is 330 and 10 left 355
\* is 5; the position does not move.
C3_TurnArithmetic ==
  [][\A a \in Degrees :
       LET h == cybot_position.angle
           n == Val10(a) \div 10
           Kept == /\ cybot_position'.x = cybot_position.x
                   /\ cybot_position'.y = cybot_position.y
       IN /\ (Handles(LRight(a)) /\ scan_data.type = None)
               => /\ cybot_position'.angle = (h - n) % 360
                  /\ (h = 350 /\ n = 20 => cybot_position'.angle = 330)
                  /\ Kept
          /\ (Handles(LLeft(a)) /\ scan_data.type = None)
               => /\ cybot_position'.angle = (h + n) % 360
                  /\ (h = 10 /\ n = 355 => cybot_position'.angle = 5)
                  /\ Kept]_vars

\* a left turn by 355 has just taken the heading from 10 to 5
C3_Witness ==
  /\ handed # <<>>
  /\ Last(handed) = LLeft("355")
  /\ Len(movement_history) >= 2
  /\ movement_history[Len(movement_history) - 1].angle = 10
  /\ cybot_position.angle = 5

\* C4 (heading invariant): the heading of the pose and of every history
\* entry is an integer h with 0 <= h < 360.
C4_HeadingInRange ==
  /\ cybot_position.angle \in 0..359
  /\ \A i \in 1..Len(movement_history) : movement_history[i].angle \in 0..359

\* a turn that wrapped below 0, after a Clear Map that followed a turn
C4_Witness ==
  /\ ngui = 1
  /\ handed = <<LRight("100"), LRight("100")>>
  /\ Len(movement_history) = 2
  /\ cybot_position.angle = 350

\* C6 (object header asymmetry): in every state the PING header keeps the
\* object list and the IR header empties it.
C6_HeaderAsymmetry ==
  [][/\ Handles(LHeader("PING")) => objects' = objects
     /\ Handles(LHeader("IR")) => objects' = <<>>]_vars

\* C7 (mismatched completion): a completion line of the other kind leaves
\* the collecting scan as it is, and a later valid row is still appended.
C7_MismatchedCompletion ==
  [][\A k \in Kinds :
       scan_data.type = k =>
         /\ \A other \in Kinds \ {k} :
              Handles(LComplete(other)) => /\ scan_data' = scan_data
                                           /\ polar' = polar
         /\ Handles(LRow("45", "50"))
              => scan_data' = [type |-> k,
                               angles |-> Append(scan_data.angles, 450),
                               distances |-> Append(scan_data.distances,
                                                    500)]]_vars

\* an IR scan took a row, met "PING scan complete", and took another row
C7_Witness ==
  /\ handed = <<LBegin("IR"), LRow("45", "50"), LComplete("PING"),
                LRow("45", "50")>>
  /\ scan_data = [type |-> "IR", angles |-> <<450, 450>>,
                  distances |-> <<500, 500>>]

RECURSIVE Replay(_, _)
\* the state after process_line has handled lines in order, from s
Replay(s, lines) ==
  IF lines = <<>> THEN s
  ELSE Replay(process_line(s, Head(lines), 0).app, Tail(lines))

\* the non-blank complete lines of text, and the partial line after them
CompleteLines(text) == SelectSeq(Front(SplitNL(text)), NonBlank)
PartialLine(text) == Last(SplitNL(text))

\* what a reader hands on that is given text in a single chunk
OneChunk(text) == IF Decodable(text) THEN CompleteLines(text) ELSE <<>>

C9_ReaderSurvives ==
  [][\A t \in Threads :
       (pc[t] = "lines" /\ todo'[t] # todo[t])
         => /\ pc'[t] \in {"lines", "loop"}
            /\ todo'[t] = Tail(todo[t])]_vars

\* C10 (cooperative shutdown): a reader waiting in a read while the stop
\* flag is set leaves the wait, also when no data arrives and nothing
\* interrupts the read.
C10_CooperativeShutdown ==
  \A t \in Threads :
    (stop_thread /\ pc[t] = "recv") ~> (~stop_thread \/ pc[t] # "recv")

\* the reader is between two lines
Quiet == \A t \in Threads : pc[t] \in {"none", "loop", "recv", "lines"}

\* C8 (atomic classify-and-apply): the pose a map redraw reads is the last
\* entry of the history it reads, and between two lines the scan holds as
\* many angles as distances.
C8_AtomicApply ==
  /\ <<map_view.position.x, map_view.position.y>> = Last(map_view.history)
  /\ Quiet => Len(scan_data.angles) = Len(scan_data.distances)

\* as long as no menu command runs, the statements of a handler leave the
\* state that the handler as a whole leaves
StepsRefineHandlers == (ngui = 0 /\ Quiet) => App = Replay(NewApp, handed)

\* C11 (backward movement): a backward movement of d handed on while no scan
\* collects is applied as Forward(-d): the position moves d against the
\* heading, the heading stays, and the new pose is appended to the history.
C11_BackwardMovement ==
  [][(Handles(LBackward) /\ scan_data.type = None)
       => LET back == move_forward(App, 0 - 100, 0).app
          IN /\ cybot_position' = back.cybot_position
             /\ cybot_position'.angle = cybot_position.angle
             /\ <<cybot_position'.x, cybot_position'.y>>
                  # <<cybot_position.x, cybot_position.y>>
             /\ movement_history'
                  = Append(movement_history, cybot_position')]_vars

\* the lines with a movement template
Movements ==
  {LForward} \cup {LRight(a) : a \in Degrees} \cup {LLeft(a) : a \in Degrees}

\* some line of the text carries the completion marker
Marked(text) ==
  \E i \in 1..Len(SplitNL(text)) :
     Contains(SplitNL(text)[i], <<"Movement", "complete:">>)

\* C12 (movement gating): a line with a movement template and no completion
\* marker in the text read with it leaves the pose and the history
\* unchanged.
C12_MovementGating ==
  [][\A t \in Threads : \A line \in Movements :
       (/\ pc[t] = "lines" /\ Head(todo[t]) = line /\ Handles(line)
        /\ ~Marked(Received(rsock[t])))
         => /\ cybot_position' = cybot_position
            /\ movement_history' = movement_history]_vars

\* the step leaves pose, history, scan, objects and samples as they are
SameEngine ==
  /\ cybot_position' = cybot_position
  /\ movement_history' = movement_history
  /\ scan_data' = scan_data
  /\ objects' = objects
  /\ water_samples' = water_samples

\* C13 (failed rows mutate nothing): a scan row or an object row that neither
\* the strict parse nor the recovery from the numbers in it can read leaves
\* pose, history, scan, objects and samples exactly as before.
C13_FailedRowsMutateNothing ==
  [][/\ \A line \in {LBadRow, LShortRow} :
          (Handles(line) /\ scan_data.type # None) => SameEngine
     /\ (Handles(LBadObject) /\ scan_data.type = None) => SameEngine]_vars

\* a scan that holds a sample has met a row nothing can be read from
C13_Witness ==
  /\ handed = <<LBegin("PING"), LFallbackRow, LBadRow>>
  /\ scan_data = [type |-> "PING", angles |-> <<450>>, distances |-> <<500>>]

\* rows whose angle is not in [0, 180] or whose distance is not positive,
\* read by the strict parse or by the recovery
OutOfRangeRows == {LRow("200", "50"), LRow("45", "0"), LFarFallback}

\* C14 (scan-sample range): every stored sample has its angle in [0, 180]
\* and a positive distance; a row out of range is dropped, the scan stays
\* as it is and the reader goes on.
C14_SampleRange ==
  [][/\ \A i \in 1..Len(scan_data'.angles) :
          scan_data'.angles[i] \in 0..1800
     /\ \A i \in 1..Len(scan_data'.distances) :
          scan_data'.distances[i] > 0
     /\ \A t \in Threads : \A line \in OutOfRangeRows :
          (/\ pc[t] = "lines" /\ Head(todo[t]) = line /\ Handles(line)
           /\ scan_data.type # None)
            => /\ scan_data' = scan_data
               /\ pc'[t] \in {"lines", "loop"}]_vars

\* a scan holds a sample that the recovery read and has dropped a row whose
\* angle the recovery read as 200
C14_Witness ==
  /\ handed = <<LBegin("PING"), LFallbackRow, LFarFallback>>
  /\ scan_data.angles = <<450>>
  /\ scan_data.distances = <<500>>

\* C15 (connection fault is terminal): a read that fails or meets the end of
\* the stream while the stop flag is clear sends the reader out of its loop;
\* a reader that has left its loop never reads or handles a line again; only
\* the user's connect opens a session; and when a reader has left its loop
\* without the stop flag set, the session becomes disconnected.
C15_FaultIsTerminal ==
  /\ [][/\ \A t \in Threads :
             (pc[t] = "recv" /\ pc'[t] # "recv" /\ rcvd' = rcvd
                /\ ~stop_thread) => pc'[t] = "exit"
        /\ \A t \in Threads :
             pc[t] \in {"exit", "done"}
               => /\ pc'[t] \in {"exit", "done"}
                  /\ todo'[t] = todo[t] /\ buffer'[t] = buffer[t]
        /\ (~connected /\ connected') => nconn' = nconn + 1]_vars
  /\ \A t \in Threads : (pc[t] = "exit" /\ ~stop_thread) ~> ~connected

\* the robot closed the connection, the reader met the end of the stream and
\* returned, and the disconnect it queued has not run yet
C15_Witness ==
  /\ 1 \in eof /\ pc[1] = "done" /\ rcvd[1] = Len(sent[1])
  /\ after = 1 /\ connected /\ ~stop_thread

\* C16 (empty chunk is a no-op): a read that returns no bytes hands no line
\* to process_line, leaves the held partial line and the engine state as
\* they were, and sends the reader back to its loop for the next read.
C16_EmptyChunkNoOp ==
  [][\A t \in Threads :
       (/\ pc[t] = "recv" /\ pc'[t] # "recv"
        /\ rsock[t] \in eof /\ Wire(rsock[t]) = <<>>)
         => /\ handed' = handed
            /\ buffer'[t] = buffer[t]
            /\ SameEngine
            /\ pc'[t] = "loop"]_vars

\* rows that process_object_data turns into an object
ObjectRows == {LObject, LFallbackObject}

\* C17 (transform purity): whenever an object row is handed to process_line,
\* process_object_data on that row leaves the pose, the movement history,
\* the scan accumulator and the sample list as they were and adds at least
\* one object, and on the same row a second time at the same pose it adds
\* objects at the same world coordinates; with no scan collecting the step
\* is that of process_object_data.
C17_TransformPurity ==
  [][\A line \in ObjectRows :
       Handles(line) =>
         /\ \A fail \in env.fails :
              LET once == process_object_data(App, line, fail)
                  twice == process_object_data(once, line, fail)
                  n == Len(objects)
              IN /\ once.cybot_position = cybot_position
                 /\ once.movement_history = movement_history
                 /\ once.scan_data = scan_data
                 /\ once.water_samples = water_samples
                 /\ Len(once.objects) > n
                 /\ Len(twice.objects) > Len(once.objects)
                 /\ \A i \in 1..n : twice.objects[i] = objects[i]
                 /\ \A i, j \in (n + 1)..Len(twice.objects) :
                       /\ twice.objects[i].x = twice.objects[j].x
                       /\ twice.objects[i].y = twice.objects[j].y
         /\ scan_data.type = None =>
              /\ cybot_position' = cybot_position
              /\ movement_history' = movement_history
              /\ scan_data' = scan_data
              /\ water_samples' = water_samples
              /\ \E fail \in env.fails :
                   objects' = process_object_data(App, line, fail).objects]_vars

\* the same row has been handled twice after a right turn by 100 degrees
\* from the heading 90: two objects at one place away from the robot
C17_Witness ==
  /\ handed = <<LRight("100"), LObject, LObject>>
  /\ scan_data.type = None
  /\ cybot_position.angle = 350
  /\ Len(objects) = 2
  /\ objects[1].x = objects[2].x /\ objects[1].y = objects[2].y
  /\ objects[1].x # cybot_position.x

\* C18 (movement during a scan): a movement confirmation handed on while a
\* scan collects changes the pose and appends the new pose to the movement
\* history.
C18_MovementDuringScan ==
  [][\A line \in {LForward, LRight("100")} :
       (Handles(line) /\ scan_data.type # None)
         => /\ cybot_position' # cybot_position
            /\ movement_history' = Append(movement_history, cybot_position')
    ]_vars

\* C19 (object source kind): every object that the handling of a received
\* line adds to the object list has the type IR or PING, and the type of
\* the scan that is collecting when there is one.
C19_ObjectSourceKind ==
  [][\A line \in env.vocab :
       Handles(line) =>
         \A i \in (Len(objects) + 1)..Len(objects') :
            /\ objects'[i].type \in Kinds
            /\ scan_data.type # None => objects'[i].type = scan_data.type
    ]_vars

\* C20 (scan restart): a 'Beginning K environment scan' line handed on in
\* any scan state, collecting or not, leaves an empty scan of kind K
\* collecting.
C20_ScanRestart ==
  [][\A k \in Kinds :
       Handles(LBegin(k)) => scan_data' = [EmptyScan EXCEPT !.type = k]]_vars

\* C21 (straight-ahead consistency): a confirmed forward movement of 10 cm,
\* handed on while no scan collects, takes the robot to the place where the
\* transform puts an object reported at local angle 90 and distance 10 cm
\* from the pose before the movement.
C21_StraightAhead ==
  [][(Handles(LForward) /\ scan_data.type = None)
       => /\ cybot_position'.x = ToWorld(cybot_position, 900, 100).x
          /\ cybot_position'.y = ToWorld(cybot_position, 900, 100).y]_vars

\* C22 (right-hand side convention): an object row with local angle 0 and
\* distance 35.2 cm, handed on while no scan collects, adds objects 35.2 cm
\* to the robot's right, at position + d * (cos(h - 90), sin(h - 90)) for
\* the heading h.
C22_RightHandSide ==
  [][(Handles(LSideObject) /\ scan_data.type = None)
       => \A i \in (Len(objects) + 1)..Len(objects') :
            /\ objects'[i].x = cybot_position.x
                 + 352 * Cos1000(cybot_position.angle - 90) * 1000
            /\ objects'[i].y = cybot_position.y
                 + 352 * Sin1000(cybot_position.angle - 90) * 1000]_vars

\* C23 (movement history): a movement handed on while no scan collects
\* appends exactly one entry, the pose it leaves; the last entry of the
\* history is the pose; and no step shortens the history or changes an
\* entry that is in it.
C23_MovementHistory ==
  [][/\ \A line \in Movements :
          (Handles(line) /\ scan_data.type = None)
            => movement_history' = Append(movement_history, cybot_position')
     /\ movement_history'[Len(movement_history')] = cybot_position'
     /\ Len(movement_history') >= Len(movement_history)
     /\ SubSeq(movement_history', 1, Len(movement_history))
          = movement_history]_vars

\* C24 (feature samples): every 'blue sample detected' line handed on, in
\* any scan state, appends exactly one sample at the position of the pose;
\* and no step removes a sample or changes one that is stored.
C24_FeatureSamples ==
  [][/\ Handles(LBlue)
          => water_samples' = Append(water_samples,
                                     [x |-> cybot_position.x,
                                      y |-> cybot_position.y])
     /\ Len(water_samples') >= Len(water_samples)
     /\ SubSeq(water_samples', 1, Len(water_samples)) = water_samples]_vars

\* C25 (single reader): at most one reader reads or handles lines of the
\* session's socket; and once a later connect has cleared the stop flag, a
\* reader started for an earlier connection takes no line, begins no read
\* and moves only towards its return.
C25_SingleReader ==
  /\ [](Cardinality({t \in Threads : /\ pc[t] \in {"recv", "lines"}
                                     /\ socket # 0
                                     /\ rsock[t] = socket}) <= 1)
  /\ [][\A t \in Threads :
          (t < nconn /\ ~stop_thread)
            => /\ todo'[t] = todo[t]
               /\ rsock'[t] = rsock[t]
               /\ pc'[t] # pc[t] => pc'[t] \in {"exit", "done"}]_vars

\* C26 (no cross-template capture while scanning): while a scan collects, an
\* object row, an object header or a movement confirmation handed on leaves
\* the accumulator as it was.
C26_NoCrossCapture ==
  [][\A line \in ObjectRows \cup Movements
                   \cup {LHeader(k) : k \in Kinds} :
       (Handles(line) /\ scan_data.type # None)
         => scan_data' = scan_data]_vars

\* C27 (one row, one object): an object row handed on adds at most one entry
\* to the object list, whichever of the handler's drawing calls raise.
C27_OneRowOneObject ==
  [][\A line \in ObjectRows \cup {LBadObject} :
       Handles(line) => Len(objects') <= Len(objects) + 1]_vars

\* C28 (movement frame): a movement confirmation handed on leaves the scan
\* accumulator, the object list with the world coordinates stored in it and
\* the sample list as they were; a forward movement keeps the heading and a
\* turn keeps x and y.
C28_MovementFrame ==
  [][\A line \in Movements :
       Handles(line)
         => /\ scan_data' = scan_data
            /\ objects' = objects
            /\ water_samples' = water_samples
            /\ line = LForward
                 => cybot_position'.angle = cybot_position.angle
            /\ line # LForward
                 => /\ cybot_position'.x = cybot_position.x
                    /\ cybot_position'.y = cybot_position.y]_vars

\* a right turn has been applied with an object on the map, and the object
\* is where it was put
C28_Witness ==
  /\ handed = <<LObject, LRight("100")>>
  /\ cybot_position = [x |-> 0, y |-> 0, angle |-> 350]
  /\ Len(movement_history) = 2
  /\ Len(objects) = 1
  /\ objects[1].x = ToWorld(StartPosition, 450, 352).x
  /\ objects[1].y = ToWorld(StartPosition, 450, 352).y

\* lines that match no template when no scan collects
NoiseLines ==
  {LNoise, LRow("45", "50")} \cup {LComplete(k) : k \in Kinds}

\* C29 (noise tolerance): with no scan collecting, a line that matches no
\* template, a bare scan row and a scan-complete marker among them, leaves
\* the pose, the history, the scan state, the object list and the sample
\* list as they were, and the reader that handled it goes on.
C29_NoiseTolerance ==
  [][\A line \in NoiseLines :
       (Handles(line) /\ scan_data.type = None)
         => /\ SameEngine
            /\ \A t \in Threads :
                 (pc[t] = "lines" /\ todo'[t] # todo[t])
                   => pc'[t] \in {"lines", "loop"}]_vars

=============================================================================
